---------------------------- MODULE Spec2Model ----------------------------
(***************************************************************************)
(* Model of the two maintenance scripts of the repository:                 *)
(*                                                                         *)
(*   fix_correct_file.py  removes the basmala phrase from the text of      *)
(*                        every ayah outside surah 1;                      *)
(*   fix_hizb.py          prints the verses of Al-Baqarah that carry       *)
(*                        hizbQuarter 3 and then sets hizbQuarter to 3 on  *)
(*                        the verses numbered 33..50.                      *)
(*                                                                         *)
(* Both read client/data/quran-uthmani.json, mutate the parsed value in    *)
(* memory and write it back to the same path.                              *)
(*                                                                         *)
(* The variable file holds the JSON value the bytes on disk denote (or    *)
(* the fact that there is no file, or that the bytes are not JSON).  A     *)
(* JSON object is a TLA+ function from its keys; a missing key is a key    *)
(* outside its DOMAIN.  A text is a sequence of tokens: the first word of  *)
(* the basmala, a whitespace character, the rest of the basmala, and any   *)
(* other non-whitespace character.                                         *)
(***************************************************************************)
EXTENDS Integers, Sequences, FiniteSets, TLC

VARIABLES
    file,    \* what client/data/quran-uthmani.json holds
    todo,    \* the scripts still to be run, in order
    script,  \* the script that is running (or ran last)
    pc,      \* the position of the running script
    data,    \* the script's module-level variable data
    i,       \* position of the outer for loop
    j,       \* position of the inner for loop (fix_correct_file.py)
    out,     \* the lines printed by the run, in order
    opens,   \* how many times the run opened the file for writing
    err,     \* the exception that ended the run ("" when none)
    start,   \* what the file held when the run started
    log      \* the finished runs, oldest first

vars == <<file, todo, script, pc, data, i, j, out, opens, err, start, log>>

--------------------------------------------------------------------------
(* Bounds of the model *)

\* longest text of the one-ayah documents
MaxLen == 6
\* most surahs of a structured document
MaxSurahs == 2
\* most ayahs of a surah of a structured document
MaxAyahs == 1
\* most verse records of a flat document
MaxVerses == 2
\* most surahs / verses of the documents both scripts are run on
MaxShared == 1

--------------------------------------------------------------------------
(* Texts *)

\* fix_correct_file.py line 6, as tokens: first word, space, remaining words
Basmala == <<"b", " ", "m">>

Alphabet == {"b", " ", "m", "x"}

IsSpace(c) == c = " "

\* does the phrase occur in s at position k
OccursAt(s, k) ==
    /\ k >= 1
    /\ k + Len(Basmala) - 1 <= Len(s)
    /\ SubSeq(s, k, k + Len(Basmala) - 1) = Basmala

\* str.find: the first position >= k at which the phrase occurs, 0 if none
Find(s, k) ==
    LET hits == {p \in k..Len(s) : OccursAt(s, p)}
    IN  IF hits = {} THEN 0 ELSE CHOOSE p \in hits : \A q \in hits : p <= q

\* basmala in text
Contains(s) == Find(s, 1) # 0

RECURSIVE ReplaceFrom(_, _)
ReplaceFrom(s, k) ==
    LET p == Find(s, k)
    IN  IF p = 0
        THEN SubSeq(s, k, Len(s))
        ELSE SubSeq(s, k, p - 1) \o ReplaceFrom(s, p + Len(Basmala))

ReplaceFirstOnly(s) ==
    LET p == Find(s, 1)
    IN  IF p = 0 THEN s
        ELSE SubSeq(s, 1, p - 1) \o SubSeq(s, p + Len(Basmala), Len(s))

\* text.replace(basmala, ''): the non-overlapping occurrences, left to right
Replace(s) == ReplaceFrom(s, 1)

RECURSIVE LStrip(_)
LStrip(s) == IF s # <<>> /\ IsSpace(Head(s)) THEN LStrip(Tail(s)) ELSE s

RECURSIVE RStrip(_)
RStrip(s) ==
    IF s # <<>> /\ IsSpace(s[Len(s)]) THEN RStrip(SubSeq(s, 1, Len(s) - 1)) ELSE s

\* str.strip()
Strip(s) == RStrip(LStrip(s))

MatchesAlways(ayah) == TRUE

\* the condition of line 11
Matches(ayah) == Contains(ayah.text)

\* the right-hand side of line 12
NewText(t) == Strip(Replace(t))

--------------------------------------------------------------------------
(* JSON values *)

Without(d, k) == [x \in DOMAIN d \ {k} |-> d[x]]

SetKeyIfPresent(d, k, val) == IF k \in DOMAIN d THEN [d EXCEPT ![k] = val] ELSE d

\* d[k] = val on a dict: the key is added when it is missing
SetKey(d, k, val) == [x \in DOMAIN d \cup {k} |-> IF x = k THEN val ELSE d[x]]

\* dict.get(k, default)
Get(d, k, default) == IF k \in DOMAIN d THEN d[k] ELSE default

Absent == [kind |-> "absent", v |-> <<>>]
Garbage == [kind |-> "garbage", v |-> <<>>]
NoData == [kind |-> "none", v |-> <<>>]
Dict(d) == [kind |-> "dict", v |-> d]
List(l) == [kind |-> "list", v |-> l]

SeqsUpTo(S, n) == UNION {[1..k -> S] : k \in 0..n}

Texts == SeqsUpTo(Alphabet, MaxLen)

Ayah(t) == [text |-> t, numberInSurah |-> 1]
Surah(n, as) == [number |-> n, name |-> "s", ayahs |-> as]
Nested(ss) == Dict([code |-> 200, data |-> [surahs |-> ss]])

\* one surah other than the first, one ayah, every text
TextDocs == {Nested(<<Surah(2, <<Ayah(t)>>)>>) : t \in Texts}

\* the text of the ayahs of the structured documents: the phrase, then more
SampleText == Basmala \o <<" ", "x">>

WellFormed(S, A) ==
    SeqsUpTo({Surah(n, as) : n \in {1, 2},
                             as \in SeqsUpTo({Ayah(SampleText)}, A)}, S)

\* the surahs ss with at most one key removed from a surah or an ayah
Damaged(ss) ==
    {ss}
    \cup {[ss EXCEPT ![s] = Without(@, k)] :
              s \in DOMAIN ss, k \in {"number", "ayahs"}}
    \cup UNION {{[ss EXCEPT ![s].ayahs[a] = Without(@, "text")] :
                     a \in DOMAIN ss[s].ayahs} : s \in DOMAIN ss}

StructDocs(S, A) ==
    UNION {{Nested(d) : d \in Damaged(ss)} : ss \in WellFormed(S, A)}
    \cup {Dict([code |-> 200]), Dict([code |-> 200, data |-> [edition |-> "e"]])}

--------------------------------------------------------------------------
(* Steps shared by the two scripts *)

RaiseAndWrite(e) ==
    /\ pc' = "open"
    /\ err' = e

\* an exception nothing catches: the process ends
Raise(e) ==
    /\ pc' = "failed"
    /\ err' = e

\* a script is started: python fix_....py
Launch ==
    /\ pc \in {"idle", "done", "failed"}
    /\ todo # <<>>
    /\ script' = Head(todo)
    /\ todo' = Tail(todo)
    /\ pc' = "load"
    /\ data' = NoData
    /\ i' = 0
    /\ j' = 0
    /\ out' = <<>>
    /\ opens' = 0
    /\ err' = ""
    /\ start' = file
    /\ log' = IF pc = "idle" THEN log
              ELSE Append(log, [script |-> script, ok |-> pc = "done",
                                before |-> start, after |-> file,
                                out |-> out, err |-> err])
    /\ UNCHANGED file

\* with open(path, 'r') as f: data = json.load(f)
Load ==
    /\ pc = "load"
    /\ IF file.kind = "absent" THEN Raise("FileNotFoundError") /\ UNCHANGED data
       ELSE IF file.kind = "garbage" THEN Raise("JSONDecodeError") /\ UNCHANGED data
       ELSE /\ data' = file
            /\ pc' = "enter"
            /\ UNCHANGED err
    /\ UNCHANGED <<file, todo, script, i, j, out, opens, start, log>>

\* open(path, 'w'): the file is truncated
OpenForWrite ==
    /\ pc = "open"
    /\ file' = Garbage
    /\ opens' = opens + 1
    /\ pc' = "dump"
    /\ UNCHANGED <<todo, script, data, i, j, out, err, start, log>>

\* json.dump(data, f, ensure_ascii=False, indent=2) and the close of the file
Dump ==
    /\ pc = "dump"
    /\ file' = data
    /\ pc' = "print"
    /\ UNCHANGED <<todo, script, data, i, j, out, opens, err, start, log>>

\* the final print of either script
Completion == [line |-> "fixed", number |-> 0, ayah |-> 0]

PrintDone ==
    /\ pc = "print"
    /\ out' = Append(out, Completion)
    /\ pc' = "done"
    /\ UNCHANGED <<file, todo, script, data, i, j, opens, err, start, log>>

--------------------------------------------------------------------------
(* fix_correct_file.py *)

IsFirstSurahNever(surah) == FALSE

\* the condition of line 9, negated
IsFirstSurah(surah) == surah.number = 1

\* evaluation of data['data']['surahs'] at the head of the outer loop
CEnter ==
    /\ pc = "enter"
    /\ script = "correct"
    /\ IF data.kind # "dict" THEN Raise("TypeError") /\ UNCHANGED i
       ELSE IF "data" \notin DOMAIN data.v THEN Raise("KeyError") /\ UNCHANGED i
       ELSE IF "surahs" \notin DOMAIN data.v.data THEN Raise("KeyError") /\ UNCHANGED i
       ELSE /\ i' = 1
            /\ pc' = "surah"
            /\ UNCHANGED err
    /\ UNCHANGED <<file, todo, script, data, j, out, opens, start, log>>

\* for surah in ...: if surah['number'] != 1: for ayah in surah['ayahs']:
CSurah ==
    /\ pc = "surah"
    /\ LET surahs == data.v.data.surahs
       IN  IF i > Len(surahs) THEN pc' = "open" /\ UNCHANGED <<i, j, err>>
           ELSE IF "number" \notin DOMAIN surahs[i]
                THEN Raise("KeyError") /\ UNCHANGED <<i, j>>
           ELSE IF IsFirstSurah(surahs[i])
                THEN i' = i + 1 /\ UNCHANGED <<pc, j, err>>
           ELSE IF "ayahs" \notin DOMAIN surahs[i]
                THEN Raise("KeyError") /\ UNCHANGED <<i, j>>
           ELSE j' = 1 /\ pc' = "ayah" /\ UNCHANGED <<i, err>>
    /\ UNCHANGED <<file, todo, script, data, out, opens, start, log>>

\* one turn of the inner loop: lines 10-12
CAyah ==
    /\ pc = "ayah"
    /\ LET ayahs == data.v.data.surahs[i].ayahs
       IN  IF j > Len(ayahs)
           THEN i' = i + 1 /\ pc' = "surah" /\ UNCHANGED <<j, data, err>>
           ELSE IF "text" \notin DOMAIN ayahs[j]
                THEN Raise("KeyError") /\ UNCHANGED <<i, j, data>>
           ELSE /\ data' = IF Matches(ayahs[j])
                           THEN [data EXCEPT !.v.data.surahs[i].ayahs[j].text =
                                                 NewText(@)]
                           ELSE data
                /\ j' = j + 1
                /\ UNCHANGED <<i, pc, err>>
    /\ UNCHANGED <<file, todo, script, out, opens, start, log>>

--------------------------------------------------------------------------
(* fix_hizb.py *)

\* the literals of fix_hizb.py
DiagQuarter == 3
ChapterLo == 8
ChapterHi == 293
FirstOccurrences == 50
RangeLo == 33
RangeHi == 50
NewQuarter == 3

Verse(n, q, a) == [number |-> n, hizbQuarter |-> q, numberInSurah |-> a, text |-> "t"]

\* an element of the list that is not a JSON object
Scalar(x) == [scalar |-> x]

IsDictAlways(e) == TRUE

\* does the element have the method get
IsDict(e) == "scalar" \notin DOMAIN e

Numbers == {RangeLo - 1, RangeLo, RangeHi, RangeHi + 1}
Quarters == {NewQuarter - 1, NewQuarter, NewQuarter + 1}
InSurahs == {FirstOccurrences}

\* the verse records, each with any of the three keys missing, and a string
VerseOpts ==
    {[k \in ({"text"} \cup D) |-> Verse(n, q, a)[k]] :
        n \in Numbers, q \in Quarters, a \in InSurahs,
        D \in SUBSET {"number", "hizbQuarter", "numberInSurah"}}
    \cup {Scalar("s")}

FlatDocs(V) == {List(l) : l \in SeqsUpTo(VerseOpts, V)}

\* can a for loop run over the value
Iterable(d) == d.kind \in {"list", "dict", "str"}

\* what a for loop over the value yields: the elements of a list, the keys of
\* a dict, the characters of a string
Items(d) ==
    IF d.kind = "list" THEN d.v
    ELSE IF d.kind = "str" THEN [k \in DOMAIN d.v |-> Scalar(d.v[k])]
    ELSE [k \in 1..Cardinality(DOMAIN d.v) |-> Scalar("key")]

HasAnyQuarter(verse) == "hizbQuarter" \in DOMAIN verse

\* verse.get('hizbQuarter') == 3
HasDiagQuarter(verse) ==
    "hizbQuarter" \in DOMAIN verse /\ verse.hizbQuarter = DiagQuarter

\* 8 <= surah_num <= 293
InChapter(n) == ChapterLo <= n /\ n <= ChapterHi

InRangeOpenEnd(n) == RangeLo <= n /\ n < RangeHi

\* 33 <= verse_num <= 50
InRange(n) == RangeLo <= n /\ n <= RangeHi

DiagLine(verse) ==
    [line |-> "verse", number |-> Get(verse, "number", 0),
     ayah |-> Get(verse, "numberInSurah", 0)]

\* the head of the first for loop
HEnter ==
    /\ pc = "enter"
    /\ script = "hizb"
    /\ IF Iterable(data)
       THEN i' = 1 /\ pc' = "diag" /\ UNCHANGED err
       ELSE Raise("TypeError") /\ UNCHANGED i
    /\ UNCHANGED <<file, todo, script, data, j, out, opens, start, log>>

\* one turn of the first loop: lines 8-16
HDiag ==
    /\ pc = "diag"
    /\ LET items == Items(data)
       IN  IF i > Len(items) THEN i' = 1 /\ pc' = "fix" /\ UNCHANGED <<out, err>>
           ELSE IF ~IsDict(items[i])
                THEN Raise("AttributeError") /\ UNCHANGED <<i, out>>
           ELSE IF HasDiagQuarter(items[i]) /\ InChapter(Get(items[i], "number", 0))
                THEN /\ out' = Append(out, DiagLine(items[i]))
                     /\ IF Get(items[i], "numberInSurah", 0) < FirstOccurrences
                        THEN i' = 1 /\ pc' = "fix"
                        ELSE i' = i + 1 /\ UNCHANGED pc
                     /\ UNCHANGED err
           ELSE i' = i + 1 /\ UNCHANGED <<pc, out, err>>
    /\ UNCHANGED <<file, todo, script, data, j, opens, start, log>>

\* one turn of the second loop: lines 22-26
HFix ==
    /\ pc = "fix"
    /\ LET items == Items(data)
       IN  IF i > Len(items) THEN pc' = "open" /\ UNCHANGED <<i, data, err>>
           ELSE IF ~IsDict(items[i])
                THEN Raise("AttributeError") /\ UNCHANGED <<i, data>>
           ELSE /\ data' = IF InRange(Get(items[i], "number", 0))
                           THEN [data EXCEPT !.v[i] =
                                                 SetKey(@, "hizbQuarter", NewQuarter)]
                           ELSE data
                /\ i' = i + 1
                /\ UNCHANGED <<pc, err>>
    /\ UNCHANGED <<file, todo, script, j, out, opens, start, log>>

--------------------------------------------------------------------------
(* The runs *)

\* JSON values of neither shape: {}, [], "", "x", 5
OtherDocs ==
    {Dict(<<>>), List(<<>>), [kind |-> "str", v |-> <<>>],
     [kind |-> "str", v |-> <<"x">>], [kind |-> "scalar", v |-> <<>>]}

InitRun ==
    /\ script = "none"
    /\ pc = "idle"
    /\ data = NoData
    /\ i = 0
    /\ j = 0
    /\ out = <<>>
    /\ opens = 0
    /\ err = ""
    /\ start = file
    /\ log = <<>>

\* fix_correct_file.py, run twice
InitCorrect ==
    /\ todo = <<"correct", "correct">>
    /\ \/ file \in TextDocs
       \/ file \in StructDocs(MaxSurahs, MaxAyahs)
       \/ file \in {Absent, Garbage}

\* fix_hizb.py, run once
InitHizb ==
    /\ todo = <<"hizb">>
    /\ \/ file \in FlatDocs(MaxVerses)
       \/ file \in {Absent, Garbage}

\* both scripts, in either order, on a file of any shape
InitBoth ==
    /\ todo \in {<<"correct", "hizb">>, <<"hizb", "correct">>}
    /\ \/ file \in StructDocs(MaxShared, MaxShared)
       \/ file \in FlatDocs(MaxShared)
       \/ file \in OtherDocs
       \/ file \in {Absent, Garbage}

Init ==
    /\ \/ InitCorrect
       \/ InitHizb
       \/ InitBoth
    /\ InitRun

Next ==
    \/ Launch
    \/ Load
    \/ CEnter
    \/ CSurah
    \/ CAyah
    \/ HEnter
    \/ HDiag
    \/ HFix
    \/ OpenForWrite
    \/ Dump
    \/ PrintDone

Spec == Init /\ [][Next]_vars

--------------------------------------------------------------------------
(* What the claims speak of *)

CorrectDone == script = "correct" /\ pc = "done"
HizbDone == script = "hizb" /\ pc = "done"

SurahsOf(d) == d.v.data.surahs

\* the ayahs fix_correct_file.py looks at: <<s, a>> with surah s not the first
Visited(d) ==
    UNION {{<<s, a>> : a \in DOMAIN SurahsOf(d)[s].ayahs} :
              s \in {x \in DOMAIN SurahsOf(d) : SurahsOf(d)[x].number # 1}}

TextAt(d, sa) == SurahsOf(d)[sa[1]].ayahs[sa[2]].text

\* the second run of the same script has just ended well after a good first
SecondCorrectDone ==
    /\ CorrectDone
    /\ Len(log) = 1
    /\ log[1].script = "correct"
    /\ log[1].ok

(* C1: running the basmala removal a second time changes nothing: the file
   after the second run is the file after the first run, for every text. *)
C1_Idempotent == SecondCorrectDone => file = log[1].after

(* C2: after one run, every ayah outside surah 1 whose text contained the
   phrase has a text that no longer contains it, for every original text. *)
C2_PhraseAbsent ==
    CorrectDone =>
        \A sa \in Visited(start) :
            Contains(TextAt(start, sa)) => ~Contains(TextAt(file, sa))

\* every key but k has the same value in a and b, and the keys are the same
SameBut(a, b, k) ==
    /\ DOMAIN a = DOMAIN b
    /\ \A x \in DOMAIN a \ {k} : a[x] = b[x]

(* C3: the run changes nothing but the text of ayahs outside surah 1 whose
   text contains the phrase: surah 1 is kept whole, a text without the
   phrase is kept as it is (untrimmed), every other field is kept, and so
   are the number and the order of the surahs and of their ayahs. *)
C3_Frame ==
    CorrectDone =>
        /\ file.kind = start.kind
        /\ SameBut(file.v, start.v, "data")
        /\ SameBut(file.v.data, start.v.data, "surahs")
        /\ Len(SurahsOf(file)) = Len(SurahsOf(start))
        /\ \A s \in DOMAIN SurahsOf(start) :
              LET old == SurahsOf(start)[s]
                  new == SurahsOf(file)[s]
              IN  IF old.number = 1 THEN new = old
                  ELSE /\ SameBut(new, old, "ayahs")
                       /\ Len(new.ayahs) = Len(old.ayahs)
                       /\ \A a \in DOMAIN old.ayahs :
                             /\ SameBut(new.ayahs[a], old.ayahs[a], "text")
                             /\ ~(\E k \in 1..Len(old.ayahs[a].text) :
                                     OccursAt(old.ayahs[a].text, k))
                                    => new.ayahs[a].text = old.ayahs[a].text

\* a run ended with surah 1 still holding the phrase, another surah's ayah
\* rewritten, and their order kept
C3_Witness ==
    /\ CorrectDone
    /\ Len(SurahsOf(start)) = 2
    /\ SurahsOf(start)[1].number = 1
    /\ "ayahs" \in DOMAIN SurahsOf(start)[1]
    /\ SurahsOf(start)[1].ayahs # <<>>
    /\ SurahsOf(file)[1].ayahs[1] = Ayah(SampleText)
    /\ SurahsOf(start)[2].number = 2
    /\ SurahsOf(start)[2].ayahs # <<>>
    /\ SurahsOf(file)[2].ayahs[1].text # SampleText

\* the positions of t that lie inside an occurrence of the phrase
Covered(t) ==
    {p \in 1..Len(t) :
        \E k \in 1..Len(t) : OccursAt(t, k) /\ k <= p /\ p < k + Len(Basmala)}

\* the characters of t outside every occurrence, in their order
Remaining(t) ==
    LET keep == (1..Len(t)) \ Covered(t)
    IN  [n \in 1..Cardinality(keep) |->
            t[CHOOSE p \in keep : Cardinality({q \in keep : q <= p}) = n]]

\* r is u without its leading and trailing whitespace
TrimOf(u, r) ==
    /\ \E a \in 1..Len(u) + 1 : \E b \in 0..Len(u) :
          /\ r = SubSeq(u, a, b)
          /\ \A p \in 1..a - 1 : p <= Len(u) => u[p] = " "
          /\ \A p \in b + 1..Len(u) : u[p] = " "
    /\ r # <<>> => r[1] # " " /\ r[Len(r)] # " "

(* C4: for every ayah outside surah 1 whose text contained the phrase, the
   new text is the old text without the occurrences of the phrase and then
   without leading and trailing whitespace; the other characters are kept
   in their order. *)
C4_Result ==
    CorrectDone =>
        \A sa \in Visited(start) :
            Covered(TextAt(start, sa)) # {} =>
                TrimOf(Remaining(TextAt(start, sa)), TextAt(file, sa))

\* a text with two occurrences and whitespace left at both ends
C4_Witness ==
    /\ CorrectDone
    /\ Len(log) = 0
    /\ SurahsOf(start) # <<>>
    /\ <<1, 1>> \in Visited(start)
    /\ TextAt(start, <<1, 1>>) = <<" ", "b", " ", "m", "x", " ">>
    /\ TextAt(file, <<1, 1>>) = <<"x">>

NumberOf(verse) == IF "number" \in DOMAIN verse THEN verse.number ELSE 0

(* C5: after a run of fix_hizb.py every record numbered 33..50 has
   hizbQuarter 3, whatever it had and also when it had none; every other
   record (one without a number counts as 0) has its hizbQuarter as before;
   no other field changes; the first loop changes nothing; the records are
   as many as before and in the same order. *)
C5_Range ==
    /\ (script = "hizb" /\ (pc = "diag" \/ (pc = "fix" /\ i = 1))) => data = start
    /\ HizbDone =>
          /\ file.kind = start.kind
          /\ start.kind = "list" =>
                /\ Len(file.v) = Len(start.v)
                /\ \A k \in DOMAIN start.v :
                      LET old == start.v[k]
                          new == file.v[k]
                      IN  IF 33 <= NumberOf(old) /\ NumberOf(old) <= 50
                          THEN /\ DOMAIN new = DOMAIN old \cup {"hizbQuarter"}
                               /\ new.hizbQuarter = 3
                               /\ \A x \in DOMAIN old \ {"hizbQuarter"} :
                                     new[x] = old[x]
                          ELSE new = old
          /\ start.kind # "list" => file = start

\* verse 50 had no hizbQuarter and got 3, verse 51 after it kept its 2
C5_Witness ==
    /\ HizbDone
    /\ start.kind = "list"
    /\ Len(start.v) = 2
    /\ DOMAIN start.v[1] = {"number", "numberInSurah", "text"}
    /\ start.v[1].number = 50
    /\ file.v[1].hizbQuarter = 3
    /\ DOMAIN start.v[2] = {"number", "hizbQuarter", "numberInSurah", "text"}
    /\ start.v[2].number = 51
    /\ file.v[2].hizbQuarter = 2

\* the records of d that carry a hizbQuarter and a number in lo..hi
Quartered(d, lo, hi) ==
    {k \in DOMAIN d.v :
        /\ "hizbQuarter" \in DOMAIN d.v[k]
        /\ lo <= NumberOf(d.v[k])
        /\ NumberOf(d.v[k]) <= hi}

\* hizbQuarter does not decrease as number grows, over the records K of d
Monotone(d, K) ==
    \A a \in K : \A b \in K :
        NumberOf(d.v[a]) <= NumberOf(d.v[b])
            => d.v[a].hizbQuarter <= d.v[b].hizbQuarter

(* C6, as claimed: after the run hizbQuarter is non-decreasing over number
   for the records numbered 8..293 (those that carry the field). *)
C6_Monotone ==
    (HizbDone /\ start.kind = "list") => Monotone(file, Quartered(file, 8, 293))

(* C6, amended: after the run every record numbered 33..50 carries 3, so
   hizbQuarter is non-decreasing there; over 8..293 it is non-decreasing
   exactly when the records outside 33..50 were so among themselves before
   the run and, if some record is numbered 33..50, those numbered 8..32
   carried at most 3 and those numbered 51..293 at least 3. *)
C6_MonotoneAmended ==
    (HizbDone /\ start.kind = "list") =>
        LET inside == {k \in DOMAIN start.v :
                          33 <= NumberOf(start.v[k]) /\ NumberOf(start.v[k]) <= 50}
            left == Quartered(start, 8, 32)
            right == Quartered(start, 51, 293)
        IN  /\ \A k \in inside :
                  "hizbQuarter" \in DOMAIN file.v[k] /\ file.v[k].hizbQuarter = 3
            /\ Monotone(file, Quartered(file, 33, 50))
            /\ Monotone(file, Quartered(file, 8, 293))
                  <=> /\ Monotone(start, left \cup right)
                      /\ inside # {} =>
                            /\ \A k \in left : start.v[k].hizbQuarter <= 3
                            /\ \A k \in right : start.v[k].hizbQuarter >= 3

\* a run that restored the order: verse 33 carried 4 before verse 51 with 3
C6_Witness ==
    /\ HizbDone
    /\ start.kind = "list"
    /\ Len(start.v) = 2
    /\ ~Monotone(start, Quartered(start, 8, 293))
    /\ Monotone(file, Quartered(file, 8, 293))
    /\ Quartered(file, 8, 293) = {1, 2}
    /\ NumberOf(file.v[1]) = 33
    /\ NumberOf(file.v[2]) = 51

\* the positions at which the file has been or is about to be opened for writing
Writing == {"open", "dump", "print", "done"}

\* the number of turns the loop the run is in has to make
Turns ==
    IF script = "correct" THEN Len(SurahsOf(data)) ELSE Len(Items(data))

(* C7: in every run the file is opened for writing at most once and only
   after the traversal has gone through every record; a run that ends in
   an error never opened the file for writing, left on disk exactly what
   it found, and printed no completion message. *)
C7_WriteAfterMutation ==
    /\ opens <= 1
    /\ pc \in {"load", "enter", "surah", "ayah", "diag", "fix", "open"}
          => opens = 0 /\ file = start
    /\ opens = 1 => pc \in {"dump", "print", "done"} /\ i > Turns
    /\ (pc = "failed" \/ err # "") =>
          /\ pc = "failed"
          /\ err # ""
          /\ opens = 0
          /\ file = start
          /\ \A k \in DOMAIN out : out[k] # Completion

\* a run that failed on a missing key after it had changed a text in memory
C7_Witness ==
    /\ pc = "failed"
    /\ err = "KeyError"
    /\ script = "correct"
    /\ "data" \in DOMAIN data.v
    /\ "surahs" \in DOMAIN data.v.data
    /\ data # file

\* some key fix_correct_file.py expects is missing somewhere in d
MissingKeyCorrect(d) ==
    \/ "data" \notin DOMAIN d.v
    \/ "surahs" \notin DOMAIN d.v.data
    \/ \E s \in DOMAIN SurahsOf(d) :
          \/ "number" \notin DOMAIN SurahsOf(d)[s]
          \/ "ayahs" \notin DOMAIN SurahsOf(d)[s]
          \/ \E a \in DOMAIN SurahsOf(d)[s].ayahs :
                "text" \notin DOMAIN SurahsOf(d)[s].ayahs[a]

\* some verse record of d lacks one of the keys fix_hizb.py reads
MissingKeyHizb(d) ==
    \E k \in DOMAIN d.v :
        /\ "scalar" \notin DOMAIN d.v[k]
        /\ ~({"number", "numberInSurah", "hizbQuarter"} \subseteq DOMAIN d.v[k])

(* C8, as claimed: whenever an expected key is missing from the document
   the run aborts instead of going on to write the file. *)
C8_AbortOnMissingKey ==
    /\ (script = "correct" /\ start.kind = "dict" /\ MissingKeyCorrect(start))
          => pc \notin Writing
    /\ (script = "hizb" /\ start.kind = "list" /\ MissingKeyHizb(start))
          => pc \notin Writing

\* a key fix_correct_file.py subscripts is missing: data, surahs, the number
\* of a surah, or ayahs / text in a surah whose number is not 1
LooksUpMissing(d) ==
    \/ "data" \notin DOMAIN d.v
    \/ "surahs" \notin DOMAIN d.v.data
    \/ \E s \in DOMAIN SurahsOf(d) :
          \/ "number" \notin DOMAIN SurahsOf(d)[s]
          \/ /\ SurahsOf(d)[s].number # 1
             /\ \/ "ayahs" \notin DOMAIN SurahsOf(d)[s]
                \/ \E a \in DOMAIN SurahsOf(d)[s].ayahs :
                      "text" \notin DOMAIN SurahsOf(d)[s].ayahs[a]

(* C8, amended: fix_correct_file.py ends in a KeyError, the file not
   opened for writing and unchanged, exactly when data, surahs or the number
   of a surah is missing, or ayahs or the text of an ayah is missing in a
   surah whose number is not 1; a missing ayahs or text in surah 1 is never
   looked up.  fix_hizb.py never fails on a list of verse records for a
   missing number, numberInSurah or hizbQuarter: it reads them with
   defaults and goes on until it has written the file. *)
C8_Amended ==
    /\ (script = "correct" /\ start.kind = "dict") =>
          /\ pc = "failed" =>
                err = "KeyError" /\ LooksUpMissing(start) /\ opens = 0 /\ file = start
          /\ pc \in Writing => ~LooksUpMissing(start)
    /\ (script = "hizb" /\ start.kind = "list"
            /\ \A k \in DOMAIN start.v : "scalar" \notin DOMAIN start.v[k]) =>
          /\ pc # "failed"
          /\ pc # "done" => ENABLED Next

\* fix_hizb.py ran to the end on a record that has none of the three keys
C8_Witness ==
    /\ HizbDone
    /\ start.kind = "list"
    /\ Len(start.v) = 2
    /\ DOMAIN start.v[1] = {"text"}
    /\ DOMAIN start.v[2] = {"text", "number"}
    /\ start.v[2].number = 33
    /\ file.v[2].hizbQuarter = 3

(* C9, as claimed: a run prints exactly one line, the completion message,
   after the file is written, and nothing before that. *)
C9_SingleLine == out = IF pc = "done" THEN <<Completion>> ELSE <<>>

\* the records the first loop of fix_hizb.py prints: hizbQuarter 3 and number
\* in 8..293, up to the first of them whose numberInSurah is below 50
Shown(d) ==
    LET hits == {k \in DOMAIN d.v :
                    /\ "hizbQuarter" \in DOMAIN d.v[k]
                    /\ d.v[k].hizbQuarter = 3
                    /\ 8 <= NumberOf(d.v[k])
                    /\ NumberOf(d.v[k]) <= 293}
        early(k) == "numberInSurah" \notin DOMAIN d.v[k] \/ d.v[k].numberInSurah < 50
    IN  {k \in hits : \A h \in hits : (h < k) => ~early(h)}

ShownLines(d) ==
    IF d.kind # "list" THEN <<>>
    ELSE [n \in 1..Cardinality(Shown(d)) |->
             LET k == CHOOSE p \in Shown(d) :
                          Cardinality({q \in Shown(d) : q <= p}) = n
             IN  [line |-> "verse", number |-> NumberOf(d.v[k]),
                  ayah |-> IF "numberInSurah" \in DOMAIN d.v[k]
                           THEN d.v[k].numberInSurah ELSE 0]]

(* C9, amended: fix_correct_file.py prints exactly one line, the completion
   message, after the file is written.  fix_hizb.py prints the completion
   message once, as its last line and after the file is written, but before
   it (and before the write) its first loop prints one line for every verse
   with hizbQuarter 3 and number in 8..293, up to and including the first
   such verse whose numberInSurah is below 50. *)
C9_Amended ==
    /\ script = "correct" => out = IF pc = "done" THEN <<Completion>> ELSE <<>>
    /\ script = "hizb" =>
          /\ pc = "done" => out = ShownLines(start) \o <<Completion>>
          /\ pc \in {"fix", "open", "dump", "print"} => out = ShownLines(start)
          /\ pc # "done" => \A k \in DOMAIN out : out[k].line = "verse"
    /\ pc = "done" => opens = 1 /\ file = data

\* fix_hizb.py printed two verse lines and then the completion message
C9_Witness ==
    /\ HizbDone
    /\ Len(out) = 3
    /\ out[1].line = "verse"
    /\ out[2].line = "verse"
    /\ out[3] = Completion

\* the shape fix_correct_file.py needs: a mapping with the key data
HasData(d) == d.kind = "dict" /\ "data" \in DOMAIN d.v

\* the second of two runs of different scripts is going on or has ended
SecondOfBoth == Len(log) = 1 /\ log[1].script # script

(* C10: no value at the shared path lets both scripts run to the end: a
   value fix_correct_file.py gets through is a mapping with the key data and
   fix_hizb.py never gets through such a value; so when both are run, in
   either order, the script run after a successful one aborts before it
   opens the file for writing, a failed run leaves the file as it found it,
   and the file keeps the shape it started with. *)
C10_ShapesExclusive ==
    /\ CorrectDone => HasData(start)
    /\ (script = "hizb" /\ pc \in Writing) => ~HasData(start)
    /\ (SecondOfBoth /\ log[1].ok) => pc \notin Writing /\ opens = 0
    /\ SecondOfBoth =>
          /\ ~log[1].ok => log[1].after = log[1].before
          /\ pc \in {"done", "failed"} =>
                /\ file.kind = log[1].before.kind
                /\ HasData(file) <=> HasData(log[1].before)
                /\ pc = "failed" => file = start

\* fix_correct_file.py changed the file and fix_hizb.py then failed on it
C10_Witness ==
    /\ SecondOfBoth
    /\ script = "hizb"
    /\ pc = "failed"
    /\ err = "AttributeError"
    /\ log[1].ok
    /\ log[1].after # log[1].before
    /\ file = log[1].after

==========================================================================
